---- MODULE Spec2Model ----
(***************************************************************************)
(* A model of the mini_os cooperative threading runtime                    *)
(* (src/src/threadlib.cpp, src/include/threadlib.hpp).                     *)
(*                                                                         *)
(* One operating-system thread runs thread_run's loop and, in turn, each   *)
(* task.  The model has one action per API call and one per run-loop step. *)
(* A task's entry function (Thread::func) is a finite sequence of API      *)
(* calls; g_threads[tid].ip is the saved position inside it, which is what *)
(* the task's execution context holds while the task is suspended.         *)
(*                                                                         *)
(* The source has two builds, chosen by the preprocessor (_WIN32 or not);  *)
(* the variable platform holds the build.                                  *)
(***************************************************************************)
EXTENDS Integers, Sequences, FiniteSets, TLC

VARIABLES
  platform,           \* "posix" | "win32": which side of #if defined(_WIN32)
  pc,                 \* where control is: "main" (before thread_run), "sched"
                      \* (run loop), "task" (inside g_current's entry),
                      \* "halted" (thread_run returned), "crashed"
  env_SCHED,          \* the value getenv("SCHED") returns ("" = unset/NULL)
  policy,             \* g_sched.policy
  explicit,           \* history: the last argument given to set_policy, or "none"
  g_threads,          \* tid -> Thread record (vector, indexed 0..g_next_tid-1)
  g_next_tid,
  capacity,           \* g_threads.capacity()
  g_current,
  rrq,                \* g_sched.rrq
  mlfq,               \* g_sched.mlfq: sequence of FIFOs, level L at index L+1
  levels,
  quantum_by_level,   \* level L at index L+1
  configured,         \* history of mlfq_set_quantum_by_level: level -> the
                      \* quantum last given for it (read only by the
                      \* properties)
  enable_aging,
  aging_interval_ms,
  last_age_ms,
  g_resources,        \* resource name -> wait queue (only names ever waited on)
  now,                \* the steady clock, in the unit now_ms() returns
  g_log,              \* schedule_log.csv: sequence of [event, tid]
  hist                \* history of the last API call, a record read only by
                      \* the properties (never by the actions)

vars == <<platform, pc, env_SCHED, policy, explicit, g_threads, g_next_tid,
          capacity, g_current, rrq, mlfq, levels, quantum_by_level, configured,
          enable_aging, aging_interval_ms, last_age_ms, g_resources, now,
          g_log, hist>>

----------------------------------------------------------------------------
(* Bounds of the model *)

MaxThreads == 3
MaxTime == 2

(* Program constants *)

DefaultQuantum == 8
DefaultLevels == 3
DefaultAgingInterval == 500
MinPriority == 1
MaxPriority == 10
MinLevels == 1
MaxLevels == 8
(* clock units per millisecond: now_ms() counts std::chrono::microseconds *)
UnitsPerMs == 1000

Max(a, b) == IF a >= b THEN a ELSE b
Min(a, b) == IF a <= b THEN a ELSE b
clamp(v, lo, hi) == IF v < lo THEN lo ELSE IF v > hi THEN hi ELSE v

RECURSIVE Pow2(_)
Pow2(n) == IF n <= 0 THEN 1 ELSE 2 * Pow2(n - 1)

(* 8 >> i for an int *)
Shr8(i) == 8 \div Pow2(i)

Tids == 0 .. (g_next_tid - 1)

----------------------------------------------------------------------------
(* Entry functions.  An entry is a sequence of API calls; each call is a    *)
(* record [op, n, r]: n is the integer argument, r the resource name.       *)

Call(op, n, r) == [op |-> op, n |-> n, r |-> r]
Yield == Call("yield", 0, "")
Work(u) == Call("work", u, "")
Sleep(ms) == Call("sleep", ms, "")
Wait(r) == Call("wait", 0, r)
Signal(r) == Call("signal", 0, r)
(* thread_create(f, name, prio) called by a task: n is prio, r names f *)
Create(f, prio) == Call("create", prio, f)
(* mlfq_set_levels(n) called by a task *)
SetLevels(n) == Call("levels", n, "")

(* The entry functions the specifications draw from, by name.  They follow *)
(* the shapes of src/examples: work-then-yield loops, a CPU hog, a sleeper,*)
(* waiters and signallers on a named resource, and a task that creates     *)
(* another task while it runs.                                             *)
Entry(f) ==
  CASE f = "wy1"    -> <<Work(1), Yield>>
    [] f = "wy2"    -> <<Work(1), Yield, Work(1), Yield>>
    [] f = "wy3"    -> <<Work(1), Yield, Work(1), Yield, Work(1), Yield>>
    [] f = "y0"     -> <<>>
    [] f = "y1"     -> <<Yield>>
    [] f = "y2"     -> <<Yield, Yield>>
    [] f = "busy"   -> <<Work(3), Yield, Work(3), Yield, Work(3), Yield>>
    [] f = "hog"    -> <<Work(9), Work(9), Work(9)>>
    [] f = "hog4"   -> <<Work(4), Work(4), Work(4)>>
    [] f = "mix"    -> <<Work(9), Sleep(1), Yield>>
    [] f = "sleeper" -> <<Sleep(1), Work(1)>>
    [] f = "nap2"   -> <<Work(9), Sleep(2), Yield>>
    [] f = "waiter" -> <<Wait("go"), Work(2)>>
    [] f = "waitio" -> <<Wait("io")>>
    [] f = "sig"    -> <<Signal("go"), Yield, Signal("go")>>
    [] f = "sig2"   -> <<Yield, Signal("go"), Signal("go"), Signal("io")>>
    [] f = "sigwait" -> <<Signal("go"), Wait("go")>>
    [] f = "spawn"  -> <<Create("wy1", 5), Yield>>
    [] f = "hw"     -> <<Work(9), Work(9), Wait("go")>>
    [] f = "sgl"    -> <<Work(9), Sleep(2), Signal("go")>>
    [] f = "relevel" -> <<Work(9), SetLevels(2), Yield>>
    [] OTHER        -> <<>>

(* The arguments of one thread_create call *)
Req(f, name, prio) == [func |-> f, name |-> name, priority |-> prio]

----------------------------------------------------------------------------
(* struct Thread, as thread_create fills it.  cx is TRUE once the platform *)
(* context (ucontext made by makecontext / fiber made by CreateFiber)      *)
(* exists; ip is the position inside func the context will continue from;  *)
(* th_valid says whether the trampoline's reference `th` into g_threads    *)
(* still points at the record (it dangles after the vector reallocates);   *)
(* invoked counts the calls of th.func(); slept_at is history, the clock   *)
(* at the task's last thread_sleep call.  work_ref is the reference `th`   *)
(* that thread_work holds while the task is suspended inside it ("none"    *)
(* when it is not, "dangling" once the vector has reallocated); work_dec   *)
(* is history, the budget as the last thread_work call left it right after *)
(* its subtraction.                                                        *)
NewThread(req) ==
  [ base_priority  |-> clamp(req.priority, MinPriority, MaxPriority),
    state          |-> "NEW",
    name           |-> req.name,
    func           |-> req.func,
    cx             |-> FALSE,
    wake_time_ms   |-> 0,
    quantum_budget |-> DefaultQuantum,
    mlfq_level     |-> 0,
    ip             |-> 1,
    th_valid       |-> FALSE,
    invoked        |-> 0,
    slept_at       |-> 0,
    work_ref       |-> "none",
    work_dec       |-> 0 ]

(* The mutable runtime state the scheduler operators read and update,      *)
(* gathered into one record so that a handler is a composition of them.    *)
World ==
  [ g_threads        |-> g_threads,
    rrq              |-> rrq,
    mlfq             |-> mlfq,
    quantum_by_level |-> quantum_by_level,
    last_age_ms      |-> last_age_ms,
    g_resources      |-> g_resources,
    g_log            |-> g_log ]

Commit(W) ==
  /\ g_threads' = W.g_threads
  /\ rrq' = W.rrq
  /\ mlfq' = W.mlfq
  /\ quantum_by_level' = W.quantum_by_level
  /\ configured' = configured
  /\ last_age_ms' = W.last_age_ms
  /\ g_resources' = W.g_resources
  /\ g_log' = W.g_log

(* Logger::log (the file is taken to be open) *)
Log(W, event, tid, info) ==
  [W EXCEPT !.g_log = Append(@, [event |-> event, tid |-> tid, info |-> info])]

SetState(W, tid, s) == [W EXCEPT !.g_threads[tid].state = s]

----------------------------------------------------------------------------
(* struct Scheduler *)

init_mlfq_if_needed(W) ==
  LET m == IF Len(W.mlfq) # levels
             THEN [i \in 1..levels |-> <<>>] ELSE W.mlfq
      q == IF Len(W.quantum_by_level) # levels
             THEN [i \in 1..levels |-> Max(1, Shr8(i - 1))]
             ELSE W.quantum_by_level
  IN [W EXCEPT !.mlfq = m, !.quantum_by_level = q]

(* enqueue_rr with push_front in place of push_back *)
enqueue_rr_front(W, tid) == [W EXCEPT !.rrq = <<tid>> \o @]

enqueue_rr(W, tid) == [W EXCEPT !.rrq = Append(@, tid)]

(* PrioPos with the comparison turned round *)
PrioPos_inverted(q, ths, tid) ==
  LET higher == {i \in 1..Len(q) : ths[tid].base_priority < ths[q[i]].base_priority}
  IN IF higher = {} THEN Len(q) + 1
     ELSE CHOOSE i \in higher : \A j \in higher : i <= j

(* index of the first entry of q with strictly lower base_priority than   *)
(* tid, Len(q)+1 when there is none                                        *)
PrioPos(q, ths, tid) ==
  LET lower == {i \in 1..Len(q) : ths[tid].base_priority > ths[q[i]].base_priority}
  IN IF lower = {} THEN Len(q) + 1
     ELSE CHOOSE i \in lower : \A j \in lower : i <= j

InsertAt(q, pos, x) ==
  SubSeq(q, 1, pos - 1) \o <<x>> \o SubSeq(q, pos, Len(q))

(* enqueue_prio that appends at the tail, whatever the priorities *)
enqueue_prio_tail(W, tid) == [W EXCEPT !.rrq = Append(@, tid)]

enqueue_prio(W, tid) ==
  [W EXCEPT !.rrq = InsertAt(@, PrioPos(@, W.g_threads, tid), tid)]

enqueue_mlfq(W, tid) ==
  LET W1 == init_mlfq_if_needed(W)
      lvl == clamp(W1.g_threads[tid].mlfq_level, 0, levels - 1)
  IN [W1 EXCEPT !.g_threads[tid].mlfq_level = lvl,
                !.g_threads[tid].quantum_budget = W1.quantum_by_level[lvl + 1],
                !.mlfq[lvl + 1] = Append(@, tid)]

enqueue(W, tid) ==
  CASE policy = "RoundRobin" -> enqueue_rr(W, tid)
    [] policy = "Priority"   -> enqueue_prio(W, tid)
    [] policy = "MLFQ"       -> enqueue_mlfq(W, tid)

empty(W) ==
  IF policy = "MLFQ"
    THEN \A i \in 1..Len(W.mlfq) : W.mlfq[i] = <<>>
    ELSE W.rrq = <<>>

(* PopIndex scanning downwards: the highest-index non-empty level          *)
PopIndex_highest(m) ==
  LET ne == {i \in 1..Len(m) : m[i] # <<>>}
  IN IF ne = {} THEN 0 ELSE CHOOSE i \in ne : \A j \in ne : i >= j

(* the level (as an index) Scheduler::pop takes from; 0 when all are empty *)
PopIndex(m) ==
  LET ne == {i \in 1..Len(m) : m[i] # <<>>}
  IN IF ne = {} THEN 0 ELSE CHOOSE i \in ne : \A j \in ne : i <= j

(* Scheduler::pop: the tid returned (-1: none) and the world afterwards *)
pop_tid(W) ==
  IF policy = "MLFQ"
    THEN LET W1 == init_mlfq_if_needed(W)
             i == PopIndex(W1.mlfq)
         IN IF i = 0 THEN -1 ELSE Head(W1.mlfq[i])
    ELSE Head(W.rrq)

(* pop that returns the front but leaves it in the queue *)
pop_world_keep(W) == W

pop_world(W) ==
  IF policy = "MLFQ"
    THEN LET W1 == init_mlfq_if_needed(W)
             i == PopIndex(W1.mlfq)
         IN IF i = 0 THEN W1 ELSE [W1 EXCEPT !.mlfq[i] = Tail(@)]
    ELSE [W EXCEPT !.rrq = Tail(@)]

(* a demotion that leaves the level where it is *)
demote_level_none(lvl) == lvl

demote_level(lvl) == Min(lvl + 1, levels - 1)

demote_mlfq(W, tid) ==
  IF policy # "MLFQ" THEN W
  ELSE LET lvl == demote_level(W.g_threads[tid].mlfq_level)
       IN [W EXCEPT !.g_threads[tid].mlfq_level = lvl,
                    !.g_threads[tid].quantum_budget = W.quantum_by_level[lvl + 1]]

(* a promotion that leaves the level where it is *)
promote_level_none(lvl) == lvl

promote_level(lvl) == Max(lvl - 1, 0)

promote_mlfq(W, tid) ==
  IF policy # "MLFQ" THEN W
  ELSE LET lvl == promote_level(W.g_threads[tid].mlfq_level)
       IN [W EXCEPT !.g_threads[tid].mlfq_level = lvl,
                    !.g_threads[tid].quantum_budget = W.quantum_by_level[lvl + 1]]

(* AgeIndex scanning upwards: the lowest-index non-empty level above 0     *)
AgeIndex_lowest(m) ==
  LET ne == {i \in 2..Len(m) : m[i] # <<>>}
  IN IF ne = {} THEN 0 ELSE CHOOSE i \in ne : \A j \in ne : i <= j

(* the level (as an index) maybe_age takes from: the highest-index         *)
(* non-empty level above level 0; 0 when there is none                     *)
AgeIndex(m) ==
  LET ne == {i \in 2..Len(m) : m[i] # <<>>}
  IN IF ne = {} THEN 0 ELSE CHOOSE i \in ne : \A j \in ne : i >= j

maybe_age(W, t) ==
  IF policy # "MLFQ" \/ ~enable_aging THEN W
  ELSE IF t - W.last_age_ms < aging_interval_ms THEN W
  ELSE LET W1 == [W EXCEPT !.last_age_ms = t]
           i == AgeIndex(SubSeq(W1.mlfq, 1, levels))
       IN IF i = 0 THEN W1
          ELSE LET tid == Head(W1.mlfq[i])
                   W2 == [W1 EXCEPT !.mlfq[i] = Tail(@),
                                    !.g_threads[tid].mlfq_level = i - 2,
                                    !.g_threads[tid].quantum_budget =
                                        W1.quantum_by_level[i - 1],
                                    !.mlfq[i - 1] = Append(@, tid)]
               IN Log(W2, "age", tid, "promote")

----------------------------------------------------------------------------
(* Initial state: the static initialisers of threadlib.cpp *)

NoEnv == [set |-> FALSE, v |-> ""]
EnvVal(v) == [set |-> TRUE, v |-> v]

(* The last API call or run-loop step; ret is <<v>> when the step made a   *)
(* thread_work call return v, <<>> otherwise.                              *)
NoCall == [op |-> "", tid |-> -1, r |-> "", n |-> 0, ret |-> <<>>]
DidRet(op, tid, r, n, ret) == [op |-> op, tid |-> tid, r |-> r, n |-> n, ret |-> ret]
Did(op, tid, r, n) == DidRet(op, tid, r, n, <<>>)

InitWith(envs) ==
  /\ platform \in {"posix", "win32"}
  /\ pc = "main"
  /\ env_SCHED \in envs
  /\ policy = "RoundRobin"
  /\ explicit = "none"
  /\ g_threads = <<>>
  /\ g_next_tid = 0
  /\ capacity = 0
  /\ g_current = -1
  /\ rrq = <<>>
  /\ mlfq = <<>>
  /\ levels = DefaultLevels
  /\ quantum_by_level = <<8, 4, 2>>
  /\ configured = <<>>
  /\ enable_aging = TRUE
  /\ aging_interval_ms = DefaultAgingInterval
  /\ now = 0
  /\ last_age_ms = 0
  /\ g_resources = <<>>
  /\ g_log = <<>>
  /\ hist = NoCall

Init == InitWith({NoEnv})

----------------------------------------------------------------------------
(* std::vector<Thread>::push_back.  The vector reallocates when it is full;*)
(* the new capacity is the implementation's (doubling, or growth by half). *)

(* A capacity of MaxThreads or more is never exhausted by the model, so    *)
(* every such capacity is recorded as MaxThreads.                          *)
GrowthChoices(cap) ==
  { Min(c, MaxThreads) : c \in {Max(1, 2 * cap), Max(cap + 1, cap + (cap \div 2))} }

(* g_threads after push_back(t): a reallocation moves every record, so the *)
(* references the running trampolines hold (th) dangle from then on.       *)
push_back(ths, n, t, realloc) ==
  [i \in 0..n |->
     IF i = n THEN t
     ELSE IF realloc
       THEN [ths[i] EXCEPT !.th_valid = FALSE,
                           !.work_ref = IF @ = "none" THEN "none" ELSE "dangling"]
     ELSE ths[i]]

ThreadCreate(req, caller) ==
  /\ g_next_tid < MaxThreads
  /\ LET realloc == (g_next_tid = capacity)
     IN /\ g_threads' = push_back(g_threads, g_next_tid, NewThread(req), realloc)
        /\ IF realloc
             THEN capacity' \in GrowthChoices(capacity)
             ELSE capacity' = capacity
  /\ g_next_tid' = g_next_tid + 1
  /\ hist' = Did("create", caller, req.func, g_next_tid)

(* thread_create called from main, before thread_run *)
thread_create(req) ==
  /\ pc = "main"
  /\ ThreadCreate(req, -1)
  /\ UNCHANGED <<platform, pc, env_SCHED, policy, explicit, g_current, rrq,
                 mlfq, levels, quantum_by_level, configured, enable_aging,
                 aging_interval_ms, last_age_ms, g_resources, now, g_log>>

set_policy(p) ==
  /\ pc = "main"
  /\ policy' = p
  /\ explicit' = p
  /\ hist' = Did("set_policy", -1, p, 0)
  /\ UNCHANGED <<platform, pc, env_SCHED, g_threads, g_next_tid, capacity,
                 g_current, rrq, mlfq, levels, quantum_by_level, configured, enable_aging,
                 aging_interval_ms, last_age_ms, g_resources, now, g_log>>

mlfq_set_levels(n) ==
  /\ pc = "main"
  /\ levels' = clamp(n, MinLevels, MaxLevels)
  /\ hist' = Did("mlfq_set_levels", -1, "", n)
  /\ UNCHANGED <<platform, pc, env_SCHED, policy, explicit, g_threads,
                 g_next_tid, capacity, g_current, rrq, mlfq, quantum_by_level, configured,
                 enable_aging, aging_interval_ms, last_age_ms, g_resources,
                 now, g_log>>

(* vector::resize(level+1, 2) followed by the assignment *)
SetQuantum(q, level, units) ==
  LET n == Max(Len(q), level + 1)
  IN [i \in 1..n |->
        IF i = level + 1 THEN Max(1, units)
        ELSE IF i <= Len(q) THEN q[i] ELSE 2]

mlfq_set_quantum_by_level(level, units) ==
  /\ pc = "main"
  /\ quantum_by_level' =
       IF level < 0 THEN quantum_by_level
       ELSE SetQuantum(quantum_by_level, level, units)
  /\ configured' =
       IF level < 0 THEN configured
       ELSE [i \in DOMAIN configured \cup {level} |->
               IF i = level THEN Max(1, units) ELSE configured[i]]
  /\ hist' = Did("mlfq_set_quantum_by_level", -1, "", level)
  /\ UNCHANGED <<platform, pc, env_SCHED, policy, explicit, g_threads,
                 g_next_tid, capacity, g_current, rrq, mlfq, levels,
                 enable_aging, aging_interval_ms, last_age_ms, g_resources,
                 now, g_log>>

mlfq_enable_aging(enable) ==
  /\ pc = "main"
  /\ enable_aging' = enable
  /\ hist' = Did("mlfq_enable_aging", -1, "", 0)
  /\ UNCHANGED <<platform, pc, env_SCHED, policy, explicit, g_threads,
                 g_next_tid, capacity, g_current, rrq, mlfq, levels,
                 quantum_by_level, configured, aging_interval_ms, last_age_ms,
                 g_resources, now, g_log>>

mlfq_set_aging_interval_ms(ms) ==
  /\ pc = "main"
  /\ aging_interval_ms' = Max(1, ms)
  /\ hist' = Did("mlfq_set_aging_interval_ms", -1, "", ms)
  /\ UNCHANGED <<platform, pc, env_SCHED, policy, explicit, g_threads,
                 g_next_tid, capacity, g_current, rrq, mlfq, levels,
                 quantum_by_level, configured, enable_aging, last_age_ms, g_resources,
                 now, g_log>>

----------------------------------------------------------------------------
(* thread_run *)

(* Scheduler::set_policy_from_env: the policy after the call.  The first   *)
(* test of the source (policy is none of the three enumerators) is false   *)
(* for every value set_policy can store.                                   *)
set_policy_from_env(p, env) ==
  LET p1 == IF p \notin {"RoundRobin", "Priority", "MLFQ"} THEN "RoundRobin" ELSE p
  IN IF ~env.set THEN p1
     ELSE IF env.v = "prio" \/ env.v = "priority" THEN "Priority"
     ELSE IF env.v = "mlfq" THEN "MLFQ"
     ELSE "RoundRobin"

PolicyName(p) ==
  IF p = "RoundRobin" THEN "rr" ELSE IF p = "Priority" THEN "prio" ELSE "mlfq"

(* thread_run up to the first test of its loop *)
thread_run ==
  /\ pc = "main"
  /\ pc' = "sched"
  /\ policy' = set_policy_from_env(policy, env_SCHED)
  /\ g_log' = Append(g_log, [event |-> "boot", tid |-> -1, info |-> PolicyName(policy')])
  /\ hist' = Did("thread_run", -1, "", 0)
  /\ UNCHANGED <<platform, env_SCHED, explicit, g_threads, g_next_tid, capacity,
                 g_current, rrq, mlfq, levels, quantum_by_level, configured, enable_aging,
                 aging_interval_ms, last_age_ms, g_resources, now>>

all_done == \A t \in Tids : g_threads[t].state = "FINISHED"

(* thread_run leaving its loop *)
thread_run_halt ==
  /\ pc = "sched"
  /\ all_done
  /\ pc' = "halted"
  /\ g_log' = Append(g_log, [event |-> "halt", tid |-> -1, info |-> ""])
  /\ hist' = Did("halt", -1, "", 0)
  /\ UNCHANGED <<platform, env_SCHED, policy, explicit, g_threads, g_next_tid,
                 capacity, g_current, rrq, mlfq, levels, quantum_by_level, configured,
                 enable_aging, aging_interval_ms, last_age_ms, g_resources, now>>

(* The steady clock advances while the run loop or a task executes *)
Tick ==
  /\ pc \in {"sched", "task"}
  /\ now < MaxTime
  /\ now' = now + 1
  /\ UNCHANGED <<platform, pc, env_SCHED, policy, explicit, g_threads,
                 g_next_tid, capacity, g_current, rrq, mlfq, levels,
                 quantum_by_level, configured, enable_aging, aging_interval_ms,
                 last_age_ms, g_resources, g_log>>
  /\ hist' = Did("tick", -1, "", 0)

----------------------------------------------------------------------------
(* Platform glue *)

(* ensure_context (POSIX): makecontext only for a task still NEW.          *)
(* switch_to_thread (Windows): CreateFiber when the task has no fiber.     *)
ensure_context(W, tid) ==
  IF platform = "posix"
    THEN IF W.g_threads[tid].state = "NEW"
           THEN [W EXCEPT !.g_threads[tid].cx = TRUE] ELSE W
    ELSE IF ~W.g_threads[tid].cx
           THEN [W EXCEPT !.g_threads[tid].cx = TRUE] ELSE W

(* switch_to_thread up to the transfer of control *)
switch_to_thread(W, next) ==
  LET W1 == SetState(ensure_context(W, next), next, "RUNNING")
      W2 == IF policy = "MLFQ"
              THEN [W1 EXCEPT !.g_threads[next].quantum_budget =
                      W1.quantum_by_level[W1.g_threads[next].mlfq_level + 1]]
              ELSE W1
  IN Log(W2, "run", next, W2.g_threads[next].name)

(* context_trampoline / fiber_trampoline up to the call of th.func() *)
trampoline_enter(W, tid) ==
  LET th == W.g_threads[tid]
      q == IF policy = "MLFQ" THEN W.quantum_by_level[th.mlfq_level + 1]
           ELSE Max(1, th.quantum_budget)
      W1 == [W EXCEPT !.g_threads[tid].state = "RUNNING",
                      !.g_threads[tid].th_valid = TRUE]
      W2 == Log(W1, "start", tid, th.name)
  IN [W2 EXCEPT !.g_threads[tid].quantum_budget = q,
                !.g_threads[tid].invoked = @ + 1]

(* What the transfer of control at the end of switch_to_thread reaches:    *)
(* a context that was never made is not a place control can go to; a fresh *)
(* context starts the trampoline; a saved one continues inside the API     *)
(* call that suspended the task.                                           *)
Transfer(W, tid) ==
  IF ~W.g_threads[tid].cx THEN "crashed" ELSE "task"

Resume(W, tid) ==
  IF W.g_threads[tid].cx /\ W.g_threads[tid].invoked = 0
    THEN trampoline_enter(W, tid)
    ELSE [W EXCEPT !.g_threads[tid].work_ref = "none"]

(* What a read through a reference into freed memory gives: the value the  *)
(* block held, or whatever has been written there since.                   *)
FreedRead(v) == {v, 0}

(* The values `return th.quantum_budget` can give when the task resumes    *)
(* inside thread_work; none when it resumes anywhere else.                 *)
WorkReturn(W, tid) ==
  LET th == W.g_threads[tid]
  IN IF ~th.cx \/ th.work_ref = "none" THEN {<<>>}
     ELSE IF th.work_ref = "valid" THEN {<<th.quantum_budget>>}
     ELSE {<<v>> : v \in FreedRead(th.quantum_budget)}

----------------------------------------------------------------------------
(* Run loop *)

RECURSIVE admit_new(_, _)
admit_new(W, tid) ==
  IF tid >= g_next_tid THEN W
  ELSE admit_new(
         IF W.g_threads[tid].state = "NEW"
           THEN Log(enqueue(SetState(W, tid, "READY"), tid), "ready", tid, "")
           ELSE W,
         tid + 1)

RECURSIVE wake_from(_, _, _)
wake_from(W, tid, t) ==
  IF tid >= g_next_tid THEN W
  ELSE wake_from(
         IF W.g_threads[tid].state = "SLEEPING" /\ W.g_threads[tid].wake_time_ms <= t
           THEN Log(enqueue(SetState(W, tid, "READY"), tid), "wakeup", tid, "")
           ELSE W,
         tid + 1, t)

wake_sleepers(W, t) == wake_from(W, 0, t)

(* schedule_once up to its test of g_sched.empty() *)
schedule_prepare(W, t) == maybe_age(wake_sleepers(admit_new(W, 0), t), t)

(* One iteration of thread_run's loop: schedule_once, and the transfer of  *)
(* control into the task it dispatches.                                    *)
schedule_once ==
  /\ pc = "sched"
  /\ ~all_done
  /\ LET W1 == schedule_prepare(World, now)
     IN IF empty(W1)
          THEN /\ Commit(W1)
               /\ hist' = Did("idle", -1, "", 0)
               /\ UNCHANGED <<pc, g_current>>
          ELSE LET next == pop_tid(W1)
                   W2 == pop_world(W1)
               IN IF next < 0
                    THEN /\ Commit(W2)
                         /\ hist' = Did("idle", -1, "", 0)
                         /\ UNCHANGED <<pc, g_current>>
                    ELSE LET W3 == switch_to_thread(W2, next)
                         IN /\ Commit(Resume(W3, next))
                            /\ pc' = Transfer(W3, next)
                            /\ g_current' = next
                            /\ \E ret \in WorkReturn(W3, next) :
                                 hist' = DidRet("dispatch", next, "", 0, ret)
  /\ UNCHANGED <<platform, env_SCHED, policy, explicit, g_next_tid, capacity,
                 levels, enable_aging, aging_interval_ms, now>>

----------------------------------------------------------------------------
(* API calls made by the running task.  Cur is the call the task is at.    *)

Running == pc = "task" /\ g_current \in Tids

Body == Entry(g_threads[g_current].func)

AtCall(op) ==
  /\ Running
  /\ g_threads[g_current].ip <= Len(Body)
  /\ Body[g_threads[g_current].ip].op = op

Cur == Body[g_threads[g_current].ip]

(* the caller goes on to its next call (now, or when it is resumed) *)
Advance(W, tid) == [W EXCEPT !.g_threads[tid].ip = @ + 1]

Frame == <<platform, env_SCHED, policy, explicit, g_next_tid, capacity,
           g_current, levels, enable_aging, aging_interval_ms, now>>

thread_yield ==
  /\ AtCall("yield")
  /\ LET tid == g_current
         W0 == Advance(World, tid)
         W1 == IF tid >= 0 /\ W0.g_threads[tid].state = "RUNNING"
                 THEN Log(enqueue(SetState(W0, tid, "READY"), tid), "yield", tid, "")
                 ELSE W0
     IN /\ Commit(W1)
        /\ hist' = Did("yield", tid, "", 0)
  /\ pc' = "sched"
  /\ UNCHANGED Frame

(* Where control is after platform_yield_to_scheduler when no task has     *)
(* been dispatched.  POSIX: swapcontext saves into g_threads[-1] and       *)
(* enters g_sched_ctx, which only thread_run prepares.  Windows: main is   *)
(* made a fiber and SwitchToFiber is given the fiber that is running,      *)
(* which returns to the caller or fails.                                   *)
YieldOutcomes == IF platform = "posix" THEN {"crashed"} ELSE {"main", "crashed"}

(* thread_yield called by main before thread_run (g_current is -1) *)
main_thread_yield ==
  /\ pc = "main"
  /\ g_current = -1
  /\ hist' = Did("yield", -1, "", 0)
  /\ pc' \in YieldOutcomes
  /\ UNCHANGED <<platform, env_SCHED, policy, explicit, g_threads, g_next_tid,
                 capacity, g_current, rrq, mlfq, levels, quantum_by_level,
                 configured, enable_aging, aging_interval_ms, last_age_ms,
                 g_resources, now, g_log>>

thread_sleep ==
  /\ AtCall("sleep")
  /\ LET tid == g_current
         ms == Cur.n
         W0 == Advance(World, tid)
         W1 == [W0 EXCEPT !.g_threads[tid].wake_time_ms = now + ms,
                          !.g_threads[tid].state = "SLEEPING",
                          !.g_threads[tid].slept_at = now]
         W2 == Log(W1, "sleep", tid, ToString(ms))
         W3 == IF policy = "MLFQ" THEN promote_mlfq(W2, tid) ELSE W2
     IN /\ Commit(W3)
        /\ hist' = Did("sleep", tid, "", ms)
  /\ pc' = "sched"
  /\ UNCHANGED Frame

(* WaitQueue::push on g_resources[resource] (operator[] adds the entry) *)
wq_push(res, r, tid) ==
  IF r \in DOMAIN res THEN [res EXCEPT ![r] = Append(@, tid)]
  ELSE (r :> <<tid>>) @@ res

thread_wait ==
  /\ AtCall("wait")
  /\ LET tid == g_current
         r == Cur.r
         W0 == Advance(World, tid)
         W1 == [W0 EXCEPT !.g_threads[tid].state = "BLOCKED",
                          !.g_resources = wq_push(@, r, tid)]
         W2 == Log(W1, "wait", tid, r)
         W3 == IF policy = "MLFQ" THEN promote_mlfq(W2, tid) ELSE W2
     IN /\ Commit(W3)
        /\ hist' = Did("wait", tid, r, 0)
  /\ pc' = "sched"
  /\ UNCHANGED Frame

(* a pop that hands out the most recent waiter *)
wq_back(q) == q[Len(q)]

(* WaitQueue::pop: the tid taken and the queue left *)
wq_front(q) == Head(q)
wq_rest(q) == Tail(q)

NoWaiter(res, r) == r \notin DOMAIN res \/ res[r] = <<>>

(* thread_signal with the log call outside the test for a waiter *)
signal_always_logs(W, r) ==
  IF NoWaiter(W.g_resources, r) THEN Log(W, "signal", -1, r)
  ELSE LET tid == wq_front(W.g_resources[r])
           W1 == [W EXCEPT !.g_resources[r] = wq_rest(@)]
       IN IF W1.g_threads[tid].state = "BLOCKED"
            THEN Log(enqueue(SetState(W1, tid, "READY"), tid), "signal", tid, r)
            ELSE W1

signal(W, r) ==
  IF NoWaiter(W.g_resources, r) THEN W
  ELSE LET tid == wq_front(W.g_resources[r])
           W1 == [W EXCEPT !.g_resources[r] = wq_rest(@)]
       IN IF W1.g_threads[tid].state = "BLOCKED"
            THEN Log(enqueue(SetState(W1, tid, "READY"), tid), "signal", tid, r)
            ELSE W1

thread_signal ==
  /\ AtCall("signal")
  /\ Commit(signal(Advance(World, g_current), Cur.r))
  /\ hist' = Did("signal", g_current, Cur.r, 0)
  /\ UNCHANGED pc
  /\ UNCHANGED Frame

(* thread_work: the world after the call, and whether it suspends *)
work_expired(W, tid, units) ==
  W.g_threads[tid].quantum_budget - Max(1, units) <= 0

work(W, tid, units) ==
  LET W0 == [W EXCEPT !.g_threads[tid].quantum_budget = @ - Max(1, units)]
      W1 == [W0 EXCEPT !.g_threads[tid].work_dec = W0.g_threads[tid].quantum_budget,
                       !.g_threads[tid].work_ref =
                          IF W0.g_threads[tid].quantum_budget <= 0
                            THEN "valid" ELSE "none"]
  IN IF W1.g_threads[tid].quantum_budget <= 0
       THEN LET W2 == Log(W1, "qexpire", tid, "auto-yield")
                W3 == IF policy = "MLFQ" THEN demote_mlfq(W2, tid) ELSE W2
            IN IF W3.g_threads[tid].state = "RUNNING"
                 THEN enqueue(SetState(W3, tid, "READY"), tid)
                 ELSE W3
       ELSE W1

thread_work ==
  /\ AtCall("work")
  /\ LET tid == g_current
         W0 == Advance(World, tid)
         W1 == work(W0, tid, Cur.n)
     IN /\ Commit(W1)
        /\ pc' = IF work_expired(W0, tid, Cur.n) THEN "sched" ELSE "task"
        /\ hist' = DidRet("work", tid, "", Cur.n,
                          IF work_expired(W0, tid, Cur.n) THEN <<>>
                          ELSE <<W1.g_threads[tid].quantum_budget>>)
  /\ UNCHANGED Frame

(* thread_create called by the running task *)
task_create ==
  /\ AtCall("create")
  /\ g_next_tid < MaxThreads
  /\ LET realloc == (g_next_tid = capacity)
         ths == Advance(World, g_current).g_threads
     IN /\ g_threads' = push_back(ths, g_next_tid,
                                  NewThread(Req(Cur.r, Cur.r, Cur.n)), realloc)
        /\ IF realloc
             THEN capacity' \in GrowthChoices(capacity)
             ELSE capacity' = capacity
  /\ g_next_tid' = g_next_tid + 1
  /\ hist' = Did("create", g_current, Cur.r, g_next_tid)
  /\ UNCHANGED <<platform, pc, env_SCHED, policy, explicit, g_current, rrq,
                 mlfq, levels, quantum_by_level, configured, enable_aging,
                 aging_interval_ms, last_age_ms, g_resources, now, g_log>>

(* context_trampoline / fiber_trampoline after th.func() returns.  The     *)
(* store th.state = FINISHED goes through the reference taken before       *)
(* func ran; once g_threads has been reallocated it no longer reaches the  *)
(* record.                                                                 *)
trampoline_exit(W, tid) ==
  LET W1 == IF W.g_threads[tid].th_valid
              THEN SetState(W, tid, "FINISHED") ELSE W
  IN Log(W1, "finish", tid, "")

(* mlfq_set_levels called by the running task *)
task_mlfq_set_levels ==
  /\ AtCall("levels")
  /\ levels' = clamp(Cur.n, MinLevels, MaxLevels)
  /\ g_threads' = Advance(World, g_current).g_threads
  /\ hist' = Did("mlfq_set_levels", g_current, "", Cur.n)
  /\ UNCHANGED <<platform, pc, env_SCHED, policy, explicit, g_next_tid,
                 capacity, g_current, rrq, mlfq, quantum_by_level, configured,
                 enable_aging, aging_interval_ms, last_age_ms, g_resources,
                 now, g_log>>

(* Where control is after the trampoline's last store and its switch back  *)
(* to the run loop.  A store through a dangling reference writes into      *)
(* freed heap memory: it is lost, or it damages the heap and the process   *)
(* dies.                                                                   *)
StoreOutcomes(valid) == IF valid THEN {"sched"} ELSE {"sched", "crashed"}

task_return ==
  /\ Running
  /\ g_threads[g_current].ip > Len(Body)
  /\ g_threads[g_current].ip = Len(Body) + 1
  /\ Commit(trampoline_exit(Advance(World, g_current), g_current))
  /\ hist' = Did("finish", g_current, "", 0)
  /\ pc' \in StoreOutcomes(g_threads[g_current].th_valid)
  /\ UNCHANGED Frame

----------------------------------------------------------------------------
(* Specifications *)

Policies == {"RoundRobin", "Priority", "MLFQ"}

(* thread_create requests of the general specification *)
Requests ==
  { Req("mix", "mix", 3), Req("waiter", "io_waiter", 5), Req("sig", "sig", 7),
    Req("spawn", "sp", 9) }

Configure ==
  \/ \E p \in Policies : set_policy(p)
  \/ mlfq_set_aging_interval_ms(1)

TaskStep ==
  \/ thread_yield
  \/ thread_sleep
  \/ thread_wait
  \/ thread_signal
  \/ thread_work
  \/ task_create
  \/ task_return

RunLoop ==
  \/ thread_run
  \/ schedule_once
  \/ thread_run_halt
  \/ Tick

Next ==
  \/ \E req \in Requests : thread_create(req)
  \/ Configure
  \/ RunLoop
  \/ TaskStep

Spec == Init /\ [][Next]_vars

----------------------------------------------------------------------------
(* Specification of the SCHED environment variable against set_policy *)

EnvValues ==
  { NoEnv, EnvVal("rr"), EnvVal("prio"), EnvVal("priority"), EnvVal("mlfq"),
    EnvVal("fifo"), EnvVal("") }

InitEnv == InitWith(EnvValues)

NextEnv ==
  \/ thread_create(Req("wy1", "a", 1))
  \/ \E p \in Policies : set_policy(p)
  \/ thread_run
  \/ schedule_once
  \/ thread_run_halt
  \/ thread_yield
  \/ thread_work
  \/ task_return

SpecEnv == InitEnv /\ [][NextEnv]_vars

(* Round-robin scenario: tasks that only yield (src/examples/round_robin.cpp) *)
RRRequests == { Req("y0", "A", 1), Req("y1", "A", 1), Req("y2", "A", 1) }

NextRR ==
  \/ \E req \in RRRequests : thread_create(req)
  \/ set_policy("RoundRobin")
  \/ thread_run
  \/ schedule_once
  \/ thread_run_halt
  \/ thread_yield
  \/ task_return

SpecRR == Init /\ [][NextRR]_vars

(* The round-robin scenario with a main that may call thread_yield before *)
(* it calls thread_run                                                     *)
NextYield ==
  \/ \E req \in RRRequests : thread_create(req)
  \/ main_thread_yield
  \/ thread_run
  \/ schedule_once
  \/ thread_run_halt
  \/ thread_yield
  \/ task_return

SpecYield == Init /\ [][NextYield]_vars

(* MLFQ with a task that changes the number of levels while it runs *)
MlfqCfgRequests == { Req("hog", "hog", 3), Req("relevel", "admin", 5) }

NextMlfqCfg ==
  \/ \E req \in MlfqCfgRequests : thread_create(req)
  \/ set_policy("MLFQ")
  \/ thread_run
  \/ schedule_once
  \/ thread_run_halt
  \/ thread_yield
  \/ thread_work
  \/ task_mlfq_set_levels
  \/ task_return

SpecMlfqCfg == Init /\ [][NextMlfqCfg]_vars

(* Priority scenario: work/yield tasks of priorities 1, 5, 9               *)
(* (src/examples/priority.cpp)                                             *)
PrioRequests ==
  { Req(f, "low", 1) : f \in {"wy2", "hog4"} } \cup
  { Req(f, "mid", 5) : f \in {"wy2", "hog4"} } \cup
  { Req(f, "high", 9) : f \in {"wy2", "hog4"} }

NextPrio ==
  \/ \E req \in PrioRequests : thread_create(req)
  \/ set_policy("Priority")
  \/ thread_run
  \/ schedule_once
  \/ thread_run_halt
  \/ thread_yield
  \/ thread_work
  \/ task_return

SpecPrio == Init /\ [][NextPrio]_vars

(* Wait/signal scenario (src/examples/sleep_io.cpp): waiters and signallers *)
SigRequests ==
  { Req("waiter", "io_waiter", 5), Req("waitio", "w_io", 5),
    Req("sig", "sig", 7), Req("sig2", "sig2", 3), Req("sigwait", "sw", 5) }

NextSig ==
  \/ \E req \in SigRequests : thread_create(req)
  \/ \E p \in Policies : set_policy(p)
  \/ thread_run
  \/ schedule_once
  \/ thread_run_halt
  \/ thread_yield
  \/ thread_wait
  \/ thread_signal
  \/ thread_work
  \/ task_return

SpecSig == Init /\ [][NextSig]_vars

(* MLFQ scenario (src/examples/mlfq_demo.cpp): CPU hogs and a sleeper *)
MlfqRequests ==
  { Req("hog", "hog", 3), Req("nap2", "ui", 5) }

NextMlfq ==
  \/ \E req \in MlfqRequests : thread_create(req)
  \/ set_policy("MLFQ")
  \/ mlfq_set_levels(2)
  \/ mlfq_set_quantum_by_level(1, 3)
  \/ mlfq_set_aging_interval_ms(1)
  \/ thread_run
  \/ schedule_once
  \/ thread_run_halt
  \/ Tick
  \/ thread_yield
  \/ thread_sleep
  \/ thread_work
  \/ task_return

SpecMlfq == Init /\ [][NextMlfq]_vars

(* MLFQ with blocking calls: a task that is demoted and then waits, and a  *)
(* task that is demoted, sleeps and then signals                           *)
MlfqIoRequests ==
  { Req("hw", "io_waiter", 5), Req("sgl", "sleeper", 7) }

NextMlfqIo ==
  \/ \E req \in MlfqIoRequests : thread_create(req)
  \/ set_policy("MLFQ")
  \/ mlfq_set_aging_interval_ms(1)
  \/ thread_run
  \/ schedule_once
  \/ thread_run_halt
  \/ Tick
  \/ thread_sleep
  \/ thread_wait
  \/ thread_signal
  \/ thread_work
  \/ task_return

SpecMlfqIo == Init /\ [][NextMlfqIo]_vars

(* The general specification with the progress the program makes: the run *)
(* loop and the running task take their next step; the clock is not        *)
(* required to advance.                                                    *)

(* A created "spawn" task that has not yet made its thread_create call     *)
Unspawned == {t \in Tids : g_threads[t].func = "spawn" /\ g_threads[t].ip = 1}

(* main creates a task only if the bound on the number of tasks leaves     *)
(* room for every thread_create call the created tasks have still to make  *)
Room(req) ==
  g_next_tid + Cardinality(Unspawned) + (IF req.func = "spawn" THEN 1 ELSE 0)
    < MaxThreads

NextLive ==
  \/ \E req \in Requests : Room(req) /\ thread_create(req)
  \/ Configure
  \/ RunLoop
  \/ TaskStep

(* ENABLED <<schedule_once>>_vars as a state predicate: the iteration runs *)
(* when the loop's test passes, and it is a step unless it finds nothing   *)
(* to admit, wake, age or dispatch right after an iteration that found     *)
(* nothing either.                                                         *)
schedule_once_enabled ==
  /\ pc = "sched"
  /\ ~all_done
  /\ \/ hist # Did("idle", -1, "", 0)
     \/ schedule_prepare(World, now) # World
     \/ ~empty(World)

(* WF_vars(schedule_once), with its ENABLED spelled out *)
FairRunLoop ==
  <>[]schedule_once_enabled => []<><<schedule_once>>_vars

SpecLive ==
  /\ Init
  /\ [][NextLive]_vars
  /\ FairRunLoop
  /\ WF_vars(thread_run_halt)
  /\ WF_vars(TaskStep)

----------------------------------------------------------------------------
(* Reading the event log *)

Events(ev) == SelectSeq(g_log, LAMBDA e : e.event = ev)
EventsOf(ev, tid) == SelectSeq(g_log, LAMBDA e : e.event = ev /\ e.tid = tid)
TidsOfEvents(ev) == [i \in 1..Len(Events(ev)) |-> Events(ev)[i].tid]
NamesOfEvents(ev) == [i \in 1..Len(Events(ev)) |-> Events(ev)[i].info]
LastEvent == IF g_log = <<>> THEN [event |-> "", tid |-> -1, info |-> ""]
             ELSE g_log[Len(g_log)]

----------------------------------------------------------------------------
(* Properties *)

(* C1: whenever the run loop dispatches a task, the task's execution       *)
(* context has been created before control is transferred (control         *)
(* arrives in the task), and the task's entry has been invoked exactly     *)
(* once.                                                                   *)
C1_DispatchIntoCreatedContext ==
  \A t \in Tids :
    (hist.op = "dispatch" /\ hist.tid = t) =>
      /\ g_threads[t].cx
      /\ pc = "task"
      /\ g_threads[t].invoked = 1

(* C2: a policy set with set_policy before thread_run is the policy in     *)
(* effect during thread_run, whatever the value of SCHED.                  *)
C2_ExplicitPolicyOverridesEnv ==
  (pc # "main" /\ explicit # "none") => policy = explicit

(* C3: under RoundRobin with N tasks created before thread_run, each       *)
(* calling thread_yield exactly K times and nothing else: the run events   *)
(* go round the tids 0, 1, ..., N-1 in creation order, no task is          *)
(* dispatched more than K+1 times, the finish events are in creation       *)
(* order, and when thread_run returns every task has been dispatched       *)
(* exactly K+1 times and has finished.                                     *)
UniformYielders ==
  /\ g_next_tid > 0
  /\ policy = "RoundRobin"
  /\ \A t \in Tids : g_threads[t].func = g_threads[0].func
  /\ g_threads[0].func \in {"y0", "y1", "y2"}

C3_RoundRobinOrder ==
  (pc # "main" /\ UniformYielders) =>
    LET runs == TidsOfEvents("run")
        fins == TidsOfEvents("finish")
        N == g_next_tid
        K == Len(Entry(g_threads[0].func))
    IN /\ \A i \in 1..Len(runs) : runs[i] = (i - 1) % N
       /\ \A t \in Tids : Len(EventsOf("run", t)) <= K + 1
       /\ \A i \in 1..Len(fins) : fins[i] = i - 1
       /\ pc = "halted" =>
            /\ \A t \in Tids : Len(EventsOf("run", t)) = K + 1
            /\ Len(fins) = N

C3_Witness ==
  /\ pc = "halted"
  /\ UniformYielders
  /\ g_next_tid = 3
  /\ g_threads[0].func = "y2"
  /\ Len(Events("run")) = 9

(* C4: under Priority, with tasks of distinct base priorities all admitted *)
(* in the same run-loop iteration and none sleeping or waiting, every run  *)
(* event of a higher-priority task precedes every run event of a           *)
(* lower-priority task.                                                    *)
DistinctPriorities ==
  \A a, b \in Tids : a # b => g_threads[a].base_priority # g_threads[b].base_priority

C4_PriorityDominance ==
  (pc # "main" /\ policy = "Priority" /\ DistinctPriorities) =>
    LET runs == TidsOfEvents("run")
    IN \A i, j \in 1..Len(runs) :
         i < j => g_threads[runs[i]].base_priority >= g_threads[runs[j]].base_priority

C4_Witness ==
  /\ pc = "halted"
  /\ policy = "Priority"
  /\ g_next_tid = 3
  /\ DistinctPriorities
  /\ \A t \in Tids : Len(EventsOf("run", t)) >= 3

(* C5: under Priority, with tasks low (1), mid (5), high (9) created in    *)
(* that order before thread_run, each doing work(1); yield() twice.        *)
PriorityScenario ==
  /\ pc # "main"
  /\ policy = "Priority"
  /\ g_next_tid = 3
  /\ \A t \in Tids : g_threads[t].func = "wy2"
  /\ g_threads[0].name = "low" /\ g_threads[0].base_priority = 1
  /\ g_threads[1].name = "mid" /\ g_threads[1].base_priority = 5
  /\ g_threads[2].name = "high" /\ g_threads[2].base_priority = 9

FirstSixRuns == SubSeq(NamesOfEvents("run"), 1, 6)

(* C5 as claimed: the first six run events are high, mid, low, high, mid,  *)
(* low.                                                                    *)
C5_FirstSixInterleaved ==
  (PriorityScenario /\ Len(Events("run")) >= 6) =>
    FirstSixRuns = <<"high", "mid", "low", "high", "mid", "low">>

(* C5 as amended: once six run events are logged, the first six are high,  *)
(* high, high, mid, mid, mid (a yielding task re-enters the queue ahead of *)
(* every lower priority).                                                  *)
C5_FirstSixByPriority ==
  (PriorityScenario /\ Len(Events("run")) >= 6) =>
    FirstSixRuns = <<"high", "high", "high", "mid", "mid", "mid">>

C5_Witness == PriorityScenario /\ Len(Events("run")) >= 6 /\ pc = "halted"

(* Occurrences of a tid in the ready structures and in the wait queues *)
Count(q, t) == Cardinality({i \in 1..Len(q) : q[i] = t})

ReadySlots ==
  {<<0, i>> : i \in 1..Len(rrq)} \cup
  UNION { {<<l, i>> : i \in 1..Len(mlfq[l])} : l \in 1..Len(mlfq) }

ReadyAt(slot) == IF slot[1] = 0 THEN rrq[slot[2]] ELSE mlfq[slot[1]][slot[2]]

ReadyOcc(t) == Cardinality({sl \in ReadySlots : ReadyAt(sl) = t})

WaitSlots ==
  UNION { {<<r, i>> : i \in 1..Len(g_resources[r])} : r \in DOMAIN g_resources }

WaitOcc(t) == Cardinality({sl \in WaitSlots : g_resources[sl[1]][sl[2]] = t})

InState(t, st) == IF g_threads[t].state = st THEN 1 ELSE 0

QueuedTids ==
  {ReadyAt(sl) : sl \in ReadySlots} \cup
  {g_resources[sl[1]][sl[2]] : sl \in WaitSlots}

RunningTids == {t \in Tids : g_threads[t].state = "RUNNING"}

C7_AtMostOneRunning ==
  /\ Cardinality(RunningTids) <= 1
  /\ pc = "sched" => RunningTids = {}

(* The resource a BLOCKED task waits on, and when it began to wait, as the *)
(* event log records them                                                  *)
LastWaitIdx(t) ==
  LET W == {i \in 1..Len(g_log) : g_log[i].event = "wait" /\ g_log[i].tid = t}
  IN IF W = {} THEN 0 ELSE CHOOSE i \in W : \A j \in W : i >= j

WaitsOn(t) == IF LastWaitIdx(t) = 0 THEN "" ELSE g_log[LastWaitIdx(t)].info

BlockedOn(r) ==
  {t \in Tids : g_threads[t].state = "BLOCKED" /\ LastWaitIdx(t) > 0 /\ WaitsOn(t) = r}

SignalStep == AtCall("signal") /\ hist'.op = "signal"
WaitStep == AtCall("wait") /\ hist'.op = "wait"

(* C8: a thread_signal on a resource with tasks BLOCKED on it makes READY  *)
(* exactly one of them, the one whose thread_wait is the earliest; that    *)
(* task is then in the ready structure, no other task changes state, and   *)
(* the signalling task is still the running one.                           *)
C8_Step ==
  (SignalStep /\ BlockedOn(Cur.r) # {}) =>
    \E w \in BlockedOn(Cur.r) :
       /\ \A v \in BlockedOn(Cur.r) : LastWaitIdx(w) <= LastWaitIdx(v)
       /\ g_threads'[w].state = "READY"
       /\ \A v \in Tids \ {w} : g_threads'[v].state = g_threads[v].state
       /\ ReadyOcc(w)' = 1
       /\ WaitOcc(w)' = 0
       /\ pc' = "task"
       /\ g_current' = g_current
       /\ g_threads'[g_current].state = "RUNNING"

C8_SignalWakesEarliestWaiter == [][C8_Step]_vars

C8_Witness ==
  /\ hist.op = "signal"
  /\ LastEvent.event = "signal"
  /\ hist.r \in DOMAIN g_resources
  /\ g_resources[hist.r] # <<>>
  /\ pc = "task"

(* C9: a thread_signal on a resource without waiter changes no task, no    *)
(* queue and no log entry (the caller only goes on to its next call); a    *)
(* thread_wait always leaves its caller BLOCKED in the resource's queue,   *)
(* also after such a signal; and a BLOCKED task leaves BLOCKED only by a   *)
(* thread_signal on the resource it waits on.                              *)
SameButIp(a, b) == [a EXCEPT !.ip = 0] = [b EXCEPT !.ip = 0]

C9_Step ==
  /\ (SignalStep /\ NoWaiter(g_resources, Cur.r)) =>
       /\ \A t \in Tids : SameButIp(g_threads'[t], g_threads[t])
       /\ rrq' = rrq
       /\ mlfq' = mlfq
       /\ g_resources' = g_resources
       /\ g_log' = g_log
       /\ pc' = "task"
  /\ WaitStep =>
       /\ g_threads'[g_current].state = "BLOCKED"
       /\ Count(g_resources'[Cur.r], g_current) = 1
       /\ pc' = "sched"
  /\ \A t \in Tids :
       (g_threads[t].state = "BLOCKED" /\ g_threads'[t].state # "BLOCKED") =>
         (hist'.op = "signal" /\ hist'.r = WaitsOn(t))

C9_LostSignalIsNotRemembered == [][C9_Step]_vars

(* a task that signalled "go" when nobody waited, then waits on "go" *)
C9_Witness ==
  /\ hist.op = "wait"
  /\ hist.r = "go"
  /\ g_threads[hist.tid].func = "sigwait"
  /\ g_threads[hist.tid].state = "BLOCKED"
  /\ Events("signal") = <<>>
  /\ pc = "sched"

(* A thread_work call under MLFQ that logs qexpire *)
QexpireStep ==
  /\ AtCall("work")
  /\ hist'.op = "work"
  /\ policy = "MLFQ"
  /\ Len(g_log') = Len(g_log) + 1
  /\ g_log'[Len(g_log')].event = "qexpire"

(* the part of C10 about every expiry *)
C10_Demotion ==
  \E t \in {g_current} : \E new \in {Min(g_threads[t].mlfq_level + 1, levels - 1)} :
     /\ g_threads'[t].mlfq_level = new
     /\ g_threads'[t].state = "READY"
     /\ mlfq'[new + 1] # <<>>
     /\ mlfq'[new + 1][Len(mlfq'[new + 1])] = t
     /\ ReadyOcc(t)' = 1
     /\ g_threads'[t].quantum_budget = quantum_by_level'[new + 1]

(* levels = 3, quanta {8,4,2}, and the running task only calls work *)
DemotionScenario ==
  /\ levels = 3
  /\ quantum_by_level = <<8, 4, 2>>
  /\ g_threads[g_current].func = "hog"

(* C10 as claimed: every expiry demotes by one level up to levels-1 and    *)
(* re-enqueues the task at that level with its quantum; in the scenario    *)
(* the level after the k-th expiry is min(k, 2).                           *)
C10_Step_Claimed ==
  QexpireStep =>
    /\ C10_Demotion
    /\ DemotionScenario =>
         \E t \in {g_current} :
           g_threads'[t].mlfq_level = Min(Len(EventsOf("qexpire", t))', 2)

C10_ExpiryCountsLevels == [][C10_Step_Claimed]_vars

(* C10 as amended: the same, the scenario being held to tasks that no      *)
(* aging step has moved.                                                   *)
C10_Step_Amended ==
  QexpireStep =>
    /\ C10_Demotion
    /\ (DemotionScenario /\ EventsOf("age", g_current) = <<>>) =>
         \E t \in {g_current} :
           g_threads'[t].mlfq_level = Min(Len(EventsOf("qexpire", t))', 2)

C10_ExpiryDemotes == [][C10_Step_Amended]_vars

(* a third expiry in the scenario, the task staying at level 2 *)
C10_Witness ==
  /\ policy = "MLFQ"
  /\ hist.op = "work"
  /\ LastEvent.event = "qexpire"
  /\ levels = 3
  /\ quantum_by_level = <<8, 4, 2>>
  /\ g_threads[hist.tid].func = "hog"
  /\ EventsOf("age", hist.tid) = <<>>
  /\ Len(EventsOf("qexpire", hist.tid)) = 3
  /\ g_threads[hist.tid].mlfq_level = 2

(* a thread_sleep call *)
SleepStep == AtCall("sleep") /\ hist'.op = "sleep"

Asleep(st) == st \in {"SLEEPING", "BLOCKED"}

(* the step logs an age event for t *)
AgedInStep(t) == Len(EventsOf("age", t))' > Len(EventsOf("age", t))

(* C11: under MLFQ a thread_sleep or thread_wait call leaves its caller at *)
(* level max(previous level - 1, 0), suspended and in no ready queue; the  *)
(* level does not change while the task sleeps or is blocked; and the      *)
(* wakeup or signal that ends it enqueues the task once, in the FIFO of    *)
(* that level (from which the same run-loop iteration may dispatch it),    *)
(* unless an aging step moves the task in that iteration.                  *)
C11_Step ==
  policy = "MLFQ" =>
    /\ (SleepStep \/ WaitStep) =>
         \E t \in {g_current} :
           /\ g_threads'[t].mlfq_level = Max(g_threads[t].mlfq_level - 1, 0)
           /\ Asleep(g_threads'[t].state)
           /\ ReadyOcc(t)' = 0
           /\ pc' = "sched"
    /\ \A t \in Tids :
         Asleep(g_threads[t].state) =>
           \/ AgedInStep(t)
           \/ /\ g_threads'[t].mlfq_level = g_threads[t].mlfq_level
              /\ g_threads'[t].state \in {g_threads[t].state, "READY", "RUNNING"}
              /\ g_threads'[t].state = "READY" =>
                   /\ Count(mlfq'[g_threads[t].mlfq_level + 1], t) = 1
                   /\ ReadyOcc(t)' = 1
              /\ g_threads'[t].state = "RUNNING" =>
                   /\ hist'.op = "dispatch"
                   /\ hist'.tid = t
                   /\ LastEvent'.event = "run"

C11_SleepWaitPromote == [][C11_Step]_vars

(* a task demoted twice has waited (level 2 to 1) and has just been        *)
(* signalled into level 1                                                  *)
C11_Witness ==
  /\ policy = "MLFQ"
  /\ hist.op = "signal"
  /\ LastEvent.event = "signal"
  /\ \E t \in Tids :
       /\ LastEvent.tid = t
       /\ Len(EventsOf("qexpire", t)) = 2
       /\ EventsOf("age", t) = <<>>
       /\ g_threads[t].state = "READY"
       /\ g_threads[t].mlfq_level = 1
       /\ Count(mlfq[2], t) = 1
  /\ Events("wakeup") # <<>>

(* an aging step: maybe_age stores the clock in last_age_ms.  The static   *)
(* initialiser leaves 0 there, so a positive value is an earlier step's.   *)
AgingStep == last_age_ms' # last_age_ms

(* C12: under MLFQ with aging enabled, an aging step follows the previous  *)
(* one by at least aging_interval_ms milliseconds of clock time.           *)
C12_Step ==
  (policy = "MLFQ" /\ enable_aging /\ last_age_ms > 0 /\ AgingStep) =>
    last_age_ms' - last_age_ms >= aging_interval_ms * UnitsPerMs

C12_AgingStepsApart == [][C12_Step]_vars

(* the argument of the thread_sleep call a SLEEPING task is suspended in *)
SleepArg(t) == Entry(g_threads[t].func)[g_threads[t].ip - 1].n

(* C13: a SLEEPING task is in no queue, it leaves SLEEPING only by a       *)
(* wakeup of the run loop that makes it READY in the ready structure (from *)
(* which the same iteration may dispatch it), and that wakeup comes at     *)
(* least ms milliseconds of clock time after the thread_sleep(ms) call.    *)
C13_Step ==
  \A t \in Tids :
    g_threads[t].state = "SLEEPING" =>
      /\ ReadyOcc(t) = 0
      /\ WaitOcc(t) = 0
      /\ g_threads'[t].state # "SLEEPING" =>
           /\ hist'.op \in {"dispatch", "idle"}
           /\ Len(EventsOf("wakeup", t))' = Len(EventsOf("wakeup", t)) + 1
           /\ g_threads'[t].state \in {"READY", "RUNNING"}
           /\ g_threads'[t].state = "READY" => ReadyOcc(t)' = 1
           /\ now' - g_threads[t].slept_at >= SleepArg(t) * UnitsPerMs

C13_SleepLastsMs == [][C13_Step]_vars

(* C14: a thread_work call returns the budget as it was right after the    *)
(* subtraction, whether it returns at once or after a suspension.          *)
C14_WorkReturnsDecremented ==
  hist.ret # <<>> => hist.ret[1] = g_threads[hist.tid].work_dec

(* C15, first part: thread_run logs halt and returns only when every       *)
(* created task is FINISHED.                                               *)
HaltOnlyWhenDone ==
  /\ pc = "halted" => all_done
  /\ Events("halt") # <<>> => all_done

(* C15, last part, as a step: a BLOCKED task leaves BLOCKED only by a      *)
(* thread_signal on the resource it waits on, and thread_run does not      *)
(* return while a task is BLOCKED.                                         *)
BlockedUntilSignalled ==
  \A t \in Tids :
    g_threads[t].state = "BLOCKED" =>
      /\ pc' # "halted"
      /\ g_threads'[t].state # "BLOCKED" =>
           (hist'.op = "signal" /\ hist'.r = WaitsOn(t))

TaskIds == 0 .. (MaxThreads - 1)

Sleeping(t) == t \in Tids /\ g_threads[t].state = "SLEEPING"
DeadlineReached(t) == t \in Tids /\ g_threads[t].wake_time_ms <= now

(* t is BLOCKED and no thread_signal on its resource has followed its      *)
(* thread_wait: the resource's queue holds t since then, so every such     *)
(* thread_signal has logged a signal event.                                *)
AwaitsSignal(t) ==
  /\ t \in Tids
  /\ g_threads[t].state = "BLOCKED"
  /\ ~ \E i \in (LastWaitIdx(t) + 1) .. Len(g_log) :
          g_log[i].event = "signal" /\ g_log[i].info = WaitsOn(t)

(* C15, middle part: if every sleep deadline is eventually reached and     *)
(* every thread_wait is eventually followed by a thread_signal on the same *)
(* resource (the entries of the model are finite), thread_run, once        *)
(* called, eventually returns with every task FINISHED.                    *)
RunReturns ==
  (\A t \in TaskIds :
     /\ []<>(~Sleeping(t) \/ DeadlineReached(t))
     /\ []<>(~AwaitsSignal(t)))
  => ((pc = "sched") ~> (pc = "halted" /\ all_done))

C15_RunReturnsWhenAllFinish ==
  /\ []HaltOnlyWhenDone
  /\ [][BlockedUntilSignalled]_vars
  /\ RunReturns

(* The quantum of level i as configured: the value last given by           *)
(* mlfq_set_quantum_by_level(i, q), at least 1, or max(1, 8 >> i).         *)
ExpectedQuantum(i) ==
  IF i \in DOMAIN configured THEN configured[i] ELSE Max(1, Shr8(i))

(* In this step t is put into a ready queue of the MLFQ (admitted, woken,  *)
(* signalled, demoted or aged) or is dispatched.                           *)
ReceivesQuantum(t) ==
  \/ /\ g_threads'[t].state = "READY"
     /\ \/ t \notin Tids
        \/ g_threads[t].state # "READY"
        \/ g_threads[t].mlfq_level # g_threads'[t].mlfq_level
  \/ hist'.op = "dispatch" /\ hist'.tid = t

(* C16: under MLFQ the quantum a task receives when it is enqueued or      *)
(* dispatched at level i is the quantum configured for level i, or         *)
(* max(1, 8 >> i) when none was, whatever configuration calls were made    *)
(* before thread_run.                                                      *)
C16_Step ==
  policy = "MLFQ" =>
    \A t \in Tids' :
      ReceivesQuantum(t) =>
        g_threads'[t].quantum_budget = ExpectedQuantum(g_threads'[t].mlfq_level)

C16_ConfiguredQuantum == [][C16_Step]_vars

(* C17: under RoundRobin and Priority a dispatched task resumes with a     *)
(* positive quantum_budget, and a thread_work call suspends its caller     *)
(* (qexpire) only if the budget was positive when the call was made.       *)
C17_Step ==
  policy \in {"RoundRobin", "Priority"} =>
    /\ (hist'.op = "dispatch" /\ pc' = "task") =>
          g_threads'[hist'.tid].quantum_budget > 0
    /\ (hist'.op = "work" /\ Len(Events("qexpire")') > Len(Events("qexpire"))) =>
          g_threads[hist'.tid].quantum_budget > 0

C17_BudgetResetOnDispatch == [][C17_Step]_vars

(* The tasks an aging step moves in this step: those that get an age row   *)
AgedTasks == {t \in Tids : AgedInStep(t)}

(* The levels L >= 1 whose FIFO m[L+1] is non-empty *)
UpperNonEmpty(m) == {L \in 1 .. (Len(m) - 1) : m[L + 1] # <<>>}

(* C18: an aging step moves at most one task: the head of the highest      *)
(* non-empty level L >= 1 goes to the tail of level L-1 with level L-1 and *)
(* that level's quantum; no task of level 0 is moved and no other task's   *)
(* level or queue position changes.  Before is the state the aging step    *)
(* of the iteration finds, After the state it leaves.                      *)
C18_Step ==
  (policy = "MLFQ" /\ hist'.op \in {"dispatch", "idle"}) =>
    LET Before == wake_sleepers(admit_new(World, 0), now)
        After == maybe_age(Before, now)
        m == Before.mlfq
    IN /\ Len(Events("age"))' <= Len(Events("age")) + 1
       /\ \A t \in AgedTasks :
            /\ UpperNonEmpty(m) # {}
            /\ \E L \in UpperNonEmpty(m) :
                 /\ \A K \in UpperNonEmpty(m) : K <= L
                 /\ t = Head(m[L + 1])
                 /\ Before.g_threads[t].mlfq_level = L
                 /\ g_threads'[t].mlfq_level = L - 1
                 /\ After.g_threads[t].quantum_budget = quantum_by_level'[L]
                 /\ After.mlfq[L + 1] = Tail(m[L + 1])
                 /\ After.mlfq[L] = Append(m[L], t)
                 /\ \A i \in 1 .. Len(m) :
                      i \notin {L, L + 1} => After.mlfq[i] = m[i]
       /\ AgedTasks = {} => After.mlfq = m
       /\ \A u \in Tids \ AgedTasks :
            /\ After.g_threads[u] = Before.g_threads[u]
            /\ g_threads'[u].mlfq_level = Before.g_threads[u].mlfq_level

C18_AgingMovesOneHead == [][C18_Step]_vars

(* an aging step has moved the head of level 2 to the tail of level 1      *)
(* while level 1 held another task, which the same iteration dispatched    *)
C18_Witness ==
  /\ hist.op = "dispatch"
  /\ Len(g_log) >= 2
  /\ g_log[Len(g_log) - 1].event = "age"
  /\ \E t \in {g_log[Len(g_log) - 1].tid} :
       /\ t # hist.tid
       /\ g_threads[t].mlfq_level = 1
       /\ g_threads[hist.tid].mlfq_level = 1
       /\ mlfq[2] = <<t>>

Range(q) == {q[i] : i \in 1 .. Len(q)}

(* A FIFO between two states: some heads have left, the rest keeps its     *)
(* order at the front, and whatever came in stands behind it.              *)
FifoStep(old, new) ==
  \E k \in 0 .. Len(old) :
    /\ \A j \in 1 .. k : old[j] \notin Range(new)
    /\ Len(new) >= Len(old) - k
    /\ SubSeq(new, 1, Len(old) - k) = SubSeq(old, k + 1, Len(old))

(* C19: under MLFQ every dispatch takes the head of the lowest non-empty   *)
(* level, so a task of level L is dispatched only when every level below L *)
(* is empty, and every level is a FIFO: tasks leave it at the head in the  *)
(* order in which they were appended.  Ready is the state in which the     *)
(* iteration calls Scheduler::pop.                                         *)
C19_Step ==
  policy = "MLFQ" =>
    /\ \A i \in 1 .. Min(Len(mlfq), Len(mlfq')) : FifoStep(mlfq[i], mlfq'[i])
    /\ hist'.op = "dispatch" =>
         LET Ready == schedule_prepare(World, now)
             L == Ready.g_threads[hist'.tid].mlfq_level
         IN /\ \A K \in 0 .. (L - 1) : Ready.mlfq[K + 1] = <<>>
            /\ Ready.mlfq[L + 1] # <<>>
            /\ hist'.tid = Head(Ready.mlfq[L + 1])
            /\ mlfq'[L + 1] = Tail(Ready.mlfq[L + 1])
            /\ \A K \in 0 .. (levels - 1) :
                 /\ K # L => mlfq'[K + 1] = Ready.mlfq[K + 1]
                 /\ K < L => mlfq'[K + 1] = <<>>
            /\ g_threads'[hist'.tid].mlfq_level = L

C19_LowestLevelFirst == [][C19_Step]_vars

(* a task of level 1 has been dispatched ahead of another task of level 1  *)
(* and of a task of level 2                                                *)
C19_Witness ==
  /\ policy = "MLFQ"
  /\ hist.op = "dispatch"
  /\ levels = 3
  /\ g_threads[hist.tid].mlfq_level = 1
  /\ mlfq[1] = <<>>
  /\ mlfq[2] # <<>>
  /\ mlfq[3] # <<>>

(* C20: thread_yield called while no task has been dispatched (g_current   *)
(* is -1) returns to its caller and changes no task, queue or log entry.   *)
C20_Step ==
  (pc = "main" /\ g_current = -1 /\ hist'.op = "yield") =>
    /\ pc' = "main"
    /\ UNCHANGED <<g_threads, g_current, rrq, mlfq, g_resources, g_log>>

C20_YieldWithoutTask == [][C20_Step]_vars

(* C21: under MLFQ every tid in the FIFO of a level L is the tid of a      *)
(* READY task whose mlfq_level is L, with 0 <= L <= levels-1, and whose    *)
(* quantum_budget is quantum_by_level[L].                                  *)
C21_QueuedAtOwnLevel ==
  policy = "MLFQ" =>
    \A i \in 1 .. Len(mlfq) : \A j \in 1 .. Len(mlfq[i]) :
      \E t \in {mlfq[i][j]} :
        /\ t \in Tids
        /\ g_threads[t].state = "READY"
        /\ g_threads[t].mlfq_level = i - 1
        /\ 0 <= i - 1 /\ i - 1 <= levels - 1
        /\ i <= Len(quantum_by_level)
        /\ g_threads[t].quantum_budget = quantum_by_level[i]

====
